---- MODULE Spec2Model ----
(***************************************************************************)
(* License-chain suite: the hosted store (tables, constraints and row      *)
(* level security policies of the two migrations), the Verify page and the *)
(* Apply page.                                                             *)
(*                                                                         *)
(* The specifications share    the definitions of the store:                 *)
(*   SpecStore     principals act directly on license_applications         *)
(*   SpecLicenses  principals act directly on licenses                     *)
(*   SpecRoles     identities are created and principals act directly on   *)
(*                 user_roles                                              *)
(*   SpecVerify    the Verify page's handleVerify against licenses         *)
(*   SpecApply     the Apply page's checkAuth / onAuthStateChange /        *)
(*                 onSubmit against license_applications                   *)
(***************************************************************************)
EXTENDS Integers, FiniteSets, Sequences, TLC

VARIABLES
    auth_users,            \* auth.users: the identities that exist
    user_roles,            \* public.user_roles: set of [user_id, role]
    license_applications,  \* public.license_applications: set of rows
    licenses,              \* public.licenses: set of rows
    lastRead,              \* the rows the store returned to the latest direct select
    clock,                 \* wall clock, in JavaScript milliseconds
    licenseId,             \* Verify: useState("") licenseId
    verificationResult,    \* Verify: useState(null) verificationResult
    verify_loading,        \* Verify: useState(false) loading
    verify_toast,          \* Verify: the last toast shown
    verify_pc,             \* Verify: position of handleVerify
    queried,               \* Verify: licenseId as captured by the running handleVerify
    response,              \* Verify: what the awaited select resolved to
    data,                  \* Verify: handleVerify's local `data`
    checkedAt,             \* Verify: the value of `new Date()` at line 50
    session,               \* auth provider: the current session's user, or NoSession
    notifications,         \* auth provider: session changes not yet delivered to Apply
    user,                  \* Apply: useState(null) user
    apply_loading,         \* Apply: useState(false) loading
    apply_toast,           \* Apply: the last toast shown
    route,                 \* Apply: the location the router shows
    checkAuth_pc,          \* Apply: position of checkAuth
    onSubmit_pc,           \* Apply: position of onSubmit
    request,               \* Apply: the insert request in flight
    insertResult,          \* Apply: what the awaited insert resolved to
    sessionLost            \* Apply: the onAuthStateChange callback has run with no session

storeVars  == <<auth_users, user_roles, license_applications, licenses>>
verifyVars == <<licenseId, verificationResult, verify_loading, verify_toast,
                verify_pc, queried, response, data, checkedAt>>
applyVars  == <<session, notifications, user, apply_loading, apply_toast, route,
                checkAuth_pc, onSubmit_pc, request, insertResult, sessionLost>>
vars == <<storeVars, lastRead, clock, verifyVars, applyVars>>

----------------------------------------------------------------------------
(* Bounds of the model *)

MaxApplications == 2   \* rows license_applications may hold
MaxLicenses == 2       \* rows licenses may hold
MaxNow == 1            \* the clock runs over 0 .. MaxNow milliseconds
SubMs == 2             \* timestamptz units per JavaScript millisecond
MsPerDay == 2          \* milliseconds per calendar day
MaxNotifications == 2  \* undelivered session-change notifications

----------------------------------------------------------------------------
(* Values *)

Null == "NULL"                        \* SQL NULL, and null where a string is expected
JsNull == [null |-> TRUE]             \* JavaScript null where an object is expected
IsNull(x) == DOMAIN x = {"null"}
Anon == Null                          \* auth.uid() of an unauthenticated caller
Users == {"alice", "bob", "root"}     \* the identities that exist from the start
Principals == Users \cup {Anon}
NewUsers == {"carol", "dave"}         \* identities that may sign up

app_role == {"admin", "user"}
ApplicationStatuses == {"pending", "in_review", "approved", "rejected"}
LicenseStatuses == {"active", "expired", "suspended", "revoked"}

LicenseNumbers == {"LIC-2024-00001", "LIC-2024-00002"}
QueryStrings == LicenseNumbers \cup {"LIC-2024-12345"}
Timestamps == 0 .. (MaxNow * SubMs + 1)
Hashes == {Null, "0xabc"}

ApplicationColumns == {"id", "user_id", "status"}
LicenseColumns == {"id", "application_id", "user_id", "license_number", "license_type",
                   "business_name", "issue_date", "expiry_date", "status",
                   "blockchain_hash"}

----------------------------------------------------------------------------
(* The store: functions, constraints and policies of the migrations *)

has_role(_user_id, _role) ==
    \E r \in user_roles : r.user_id = _user_id /\ r.role = _role

\* auth.uid() = x in SQL: NULL = x is not true
UidIs(uid, x) == uid # Null /\ uid = x

Ids(table) == {r.id : r \in table}

\* gen_random_uuid(): an id no row of the table has
FreshId(table) == Cardinality(table) + 1

license_applications_constraints(row) ==
    /\ row.user_id \in auth_users
    /\ row.status \in ApplicationStatuses

licenses_constraints_NoUniqueNumber(row, others) ==
    /\ row.application_id \in Ids(license_applications)
    /\ row.user_id \in auth_users
    /\ row.license_number # Null
    /\ row.expiry_date \in Timestamps
    /\ row.status \in LicenseStatuses

licenses_constraints(row, others) ==
    /\ row.application_id \in Ids(license_applications)
    /\ row.user_id \in auth_users
    /\ row.license_number # Null
    /\ \A o \in others : o.license_number # row.license_number
    /\ row.expiry_date \in Timestamps
    /\ row.status \in LicenseStatuses

applications_select_policy_AnyAuthenticated(uid, row) == uid # Null

applications_select_policy(uid, row) ==
    \/ UidIs(uid, row.user_id)
    \/ has_role(uid, "admin")

applications_insert_policy_OrAdmin(uid, row) ==
    UidIs(uid, row.user_id) \/ has_role(uid, "admin")

applications_insert_policy(uid, row) == UidIs(uid, row.user_id)

applications_update_policy(uid, row) == has_role(uid, "admin")

licenses_select_policy(uid, row) ==
    \/ UidIs(uid, row.user_id)
    \/ has_role(uid, "admin")
    \/ TRUE

licenses_manage_policy(uid, row) == has_role(uid, "admin")

user_roles_constraints(row, others) ==
    /\ row.user_id \in auth_users
    /\ row.role \in app_role
    /\ row \notin others

roles_manage_policy_OrSelf(uid, row) ==
    has_role(uid, "admin") \/ UidIs(uid, row.user_id)

roles_manage_policy(uid, row) == has_role(uid, "admin")

\* select <cols> from <table>: the permitted rows, projected on cols
Project(row, cols) == [c \in cols |-> row[c]]

SelectApplications(uid, cols) ==
    {Project(r, cols) : r \in {x \in license_applications : applications_select_policy(uid, x)}}

SelectLicenses(uid, cols) ==
    {Project(r, cols) : r \in {x \in licenses : licenses_select_policy(uid, x)}}

----------------------------------------------------------------------------
(* Requests made directly to the store by a principal *)

\* the value an insert gives a column, or the column's DEFAULT when it names none
ColumnOr(input, column, default) ==
    IF column \in DOMAIN input THEN input[column] ELSE default

\* the row an insert into license_applications stores
NewApplication(input) ==
    [id |-> FreshId(license_applications),
     user_id |-> input.user_id,
     status |-> ColumnOr(input, "status", "pending")]

\* the store accepts the insert from the principal uid
AcceptsApplication(uid, input) ==
    /\ applications_insert_policy(uid, NewApplication(input))
    /\ license_applications_constraints(NewApplication(input))

\* insert into license_applications (user_id, status) by the principal uid
InsertApplication(uid, input) ==
    /\ AcceptsApplication(uid, input)
    /\ license_applications' = license_applications \cup {NewApplication(input)}

\* update license_applications set status = ... where id = ... by the principal uid
UpdateApplication(uid, id, status) ==
    \E old \in license_applications :
        LET row == [old EXCEPT !.status = status]
        IN /\ old.id = id
           /\ applications_update_policy(uid, old)
           /\ applications_update_policy(uid, row)
           /\ license_applications_constraints(row)
           /\ row # old
           /\ license_applications' = (license_applications \ {old}) \cup {row}

\* insert into licenses (...) by the principal uid
InsertLicense(uid, input) ==
    LET row == [id |-> FreshId(licenses),
                application_id |-> input.application_id,
                user_id |-> input.user_id,
                license_number |-> input.license_number,
                license_type |-> input.license_type,
                business_name |-> input.business_name,
                issue_date |-> ColumnOr(input, "issue_date", clock * SubMs),
                expiry_date |-> input.expiry_date,
                status |-> ColumnOr(input, "status", "active"),
                blockchain_hash |-> input.blockchain_hash]
    IN /\ licenses_manage_policy(uid, row)
       /\ licenses_constraints(row, licenses)
       /\ licenses' = licenses \cup {row}

\* update licenses set <column> = <value> where id = ... by the principal uid
UpdateLicense(uid, id, column, value) ==
    \E old \in licenses :
        LET row == [old EXCEPT ![column] = value]
        IN /\ old.id = id
           /\ licenses_manage_policy(uid, old)
           /\ licenses_manage_policy(uid, row)
           /\ licenses_constraints(row, licenses \ {old})
           /\ row # old
           /\ licenses' = (licenses \ {old}) \cup {row}

\* insert into user_roles (user_id, role) by the principal uid
InsertRole(uid, row) ==
    /\ roles_manage_policy(uid, row)
    /\ user_roles_constraints(row, user_roles)
    /\ user_roles' = user_roles \cup {row}
    /\ UNCHANGED auth_users

\* update user_roles set role = ... where user_id = ... and role = ... by uid
UpdateRole(uid, old, role) ==
    LET row == [old EXCEPT !.role = role]
    IN /\ old \in user_roles
       /\ row # old
       /\ roles_manage_policy(uid, old)
       /\ roles_manage_policy(uid, row)
       /\ user_roles_constraints(row, user_roles \ {old})
       /\ user_roles' = (user_roles \ {old}) \cup {row}
       /\ UNCHANGED auth_users

\* delete from user_roles where user_id = ... and role = ... by the principal uid
DeleteRole(uid, row) ==
    /\ row \in user_roles
    /\ roles_manage_policy(uid, row)
    /\ user_roles' = user_roles \ {row}
    /\ UNCHANGED auth_users

\* on_auth_user_created: a new identity is inserted into auth.users and the
\* trigger gives it the default role (its profiles row is not part of the state)
handle_new_user(id) ==
    /\ id \notin auth_users
    /\ auth_users' = auth_users \cup {id}
    /\ user_roles' = user_roles \cup {[user_id |-> id, role |-> "user"]}

\* select <cols> from <table> by the principal uid
Select(uid, table, cols) ==
    lastRead' = [who |-> uid, table |-> table,
                 rows |-> IF table = "licenses" THEN SelectLicenses(uid, cols)
                          ELSE SelectApplications(uid, cols)]

----------------------------------------------------------------------------
(* The Verify page *)

VerifyColumns == {"license_number", "license_type", "status", "business_name",
                  "issue_date", "expiry_date", "blockchain_hash"}

\* new Date(<timestamptz string>): the fraction below a millisecond is dropped
ParseDate(timestamp) == timestamp \div SubMs

\* toLocaleDateString('en-US', {year, month, day}): the calendar day
ToLocaleDateString(ms) == ms \div MsPerDay

IsExpired_AtExpiry(expiryDate, now) == expiryDate <= now

IsExpired(expiryDate, now) == expiryDate < now

IsValid_IgnoresStatus(isExpired, status) == ~isExpired

DisplayedStatus_Stored(isExpired, status) == status

NotFoundResult_WithStatus(q) ==
    [isValid |-> FALSE, licenseNumber |-> q, status |-> "Invalid"]

IsValid(isExpired, status) == ~isExpired /\ status = "active"

DisplayedStatus(isExpired, status) == IF isExpired THEN "Expired" ELSE status

NotFoundResult(q) == [isValid |-> FALSE, licenseNumber |-> q]

FoundResult(d, now) ==
    LET expiryDate == ParseDate(d.expiry_date)
        isExpired == IsExpired(expiryDate, now)
    IN [isValid |-> IsValid(isExpired, d.status),
        licenseNumber |-> d.license_number,
        businessName |-> d.business_name,
        licenseType |-> d.license_type,
        issueDate |-> ToLocaleDateString(ParseDate(d.issue_date)),
        expiryDate |-> ToLocaleDateString(ParseDate(d.expiry_date)),
        status |-> DisplayedStatus(isExpired, d.status),
        blockchainHash |-> IF d.blockchain_hash \in {Null, ""} THEN "N/A"
                          ELSE d.blockchain_hash]

\* .eq('license_number', q).maybeSingle() as the caller uid
MaybeSingle(uid, q) ==
    LET rows == {r \in SelectLicenses(uid, VerifyColumns) : r.license_number = q}
    IN IF rows = {} THEN [kind |-> "data", data |-> JsNull]
       ELSE IF Cardinality(rows) = 1
            THEN [kind |-> "data", data |-> CHOOSE r \in rows : TRUE]
            ELSE [kind |-> "error", message |-> "multiple rows returned"]

\* what the page shows for a verification result
Render(result) ==
    IF IsNull(result) THEN [panel |-> FALSE]
    ELSE [panel |-> TRUE,
          heading |-> IF result.isValid THEN "License Verified" ELSE "Invalid License",
          details |-> result.isValid,
          badge |-> IF result.isValid THEN result.status ELSE Null]

NoResponse == [kind |-> "none"]

\* messages of the errors a request to the store may end with
StoreErrors == {"connection refused", ""}

VerifyErrorText_PassedThrough(message) == message

\* the text handleVerify shows for a store error
VerifyErrorText(message) == "Failed to verify license. Please try again."

\* the text onSubmit shows for a store error: error.message || <fallback>
SubmitErrorText(message) ==
    IF message = "" THEN "Failed to submit application. Please try again." ELSE message
NoRequest == [kind |-> "none"]

\* onChange of the license number input
setLicenseId(value) ==
    /\ licenseId' = value
    /\ UNCHANGED <<verificationResult, verify_loading, verify_toast, verify_pc,
                   queried, response, data, checkedAt>>

\* handleVerify up to the await: the form is submitted
handleVerify_KeepsResult ==
    /\ ~verify_loading
    /\ licenseId # ""
    /\ verify_loading' = TRUE
    /\ queried' = licenseId
    /\ data' = JsNull
    /\ checkedAt' = 0
    /\ response' = NoResponse
    /\ verify_pc' = "awaiting"
    /\ UNCHANGED <<licenseId, verify_toast, verificationResult>>

\* (the submit button is disabled while loading)
handleVerify ==
    /\ ~verify_loading
    /\ licenseId # ""
    /\ verify_loading' = TRUE
    /\ verificationResult' = JsNull
    /\ queried' = licenseId
    /\ data' = JsNull
    /\ checkedAt' = 0
    /\ response' = NoResponse
    /\ verify_pc' = "awaiting"
    /\ UNCHANGED <<licenseId, verify_toast>>

\* the store answers the select, or the request fails
VerifyAnswered ==
    /\ verify_pc = "awaiting"
    /\ \/ response' = MaybeSingle(Anon, queried)
       \/ \E m \in StoreErrors : response' = [kind |-> "error", message |-> m]
       \/ response' = [kind |-> "throw"]
    /\ verify_pc' = "resolved"
    /\ UNCHANGED <<licenseId, verificationResult, verify_loading, verify_toast,
                   queried, data, checkedAt>>

\* handleVerify after the await
handleVerifyResume ==
    /\ verify_pc = "resolved"
    /\ verify_pc' = "idle"
    /\ verify_loading' = FALSE
    /\ \/ /\ response.kind = "throw"
          /\ verify_toast' = [title |-> "Error",
                              description |-> "An unexpected error occurred."]
          /\ UNCHANGED <<verificationResult, data, checkedAt>>
       \/ /\ response.kind = "error"
          /\ verify_toast' = [title |-> "Error",
                              description |-> VerifyErrorText(response.message)]
          /\ UNCHANGED <<verificationResult, data, checkedAt>>
       \/ /\ response.kind = "data"
          /\ data' = response.data
          /\ IF IsNull(response.data)
             THEN /\ verificationResult' = NotFoundResult(queried)
                  /\ UNCHANGED checkedAt
             ELSE /\ checkedAt' = clock
                  /\ verificationResult' = FoundResult(response.data, clock)
          /\ UNCHANGED verify_toast
    /\ response' = NoResponse
    /\ UNCHANGED <<licenseId, queried>>

Tick ==
    /\ clock < MaxNow
    /\ clock' = clock + 1

----------------------------------------------------------------------------
(* The Apply page and the authentication provider *)

AuthenticationRequired ==
    [title |-> "Authentication Required",
     description |-> "Please log in to submit an application."]

HoldsIdentity_Unchecked(u) == TRUE

\* onSubmit's guard: the page holds an identity
HoldsIdentity(u) == u # Null

\* the row onSubmit inserts
SubmittedRow(u) == [user_id |-> u, status |-> "pending"]

\* the provider ends the session (sign-out, expiry, revocation)
SignOut ==
    /\ session # Null
    /\ Len(notifications) < MaxNotifications
    /\ session' = Null
    /\ notifications' = Append(notifications, Null)
    /\ UNCHANGED <<user, apply_loading, apply_toast, route, checkAuth_pc, onSubmit_pc,
                   request, insertResult, sessionLost>>

\* the provider starts a session for u
SignIn(u) ==
    /\ session = Null
    /\ Len(notifications) < MaxNotifications
    /\ session' = u
    /\ notifications' = Append(notifications, u)
    /\ UNCHANGED <<user, apply_loading, apply_toast, route, checkAuth_pc, onSubmit_pc,
                   request, insertResult, sessionLost>>

\* checkAuth after await supabase.auth.getSession()
checkAuth ==
    /\ checkAuth_pc = "awaiting"
    /\ checkAuth_pc' = "done"
    /\ IF session = Null
       THEN /\ apply_toast' = AuthenticationRequired
            /\ route' = "/login"
            /\ UNCHANGED user
       ELSE /\ user' = session
            /\ UNCHANGED <<apply_toast, route>>
    /\ UNCHANGED <<session, notifications, apply_loading, onSubmit_pc, request,
                   insertResult, sessionLost>>

\* the callback given to onAuthStateChange, while the page is subscribed
onAuthStateChange ==
    /\ route = "/apply"
    /\ notifications # <<>>
    /\ notifications' = Tail(notifications)
    /\ IF Head(notifications) = Null
       THEN /\ route' = "/login"
            /\ sessionLost' = TRUE
            /\ UNCHANGED user
       ELSE /\ user' = Head(notifications)
            /\ UNCHANGED <<route, sessionLost>>
    /\ UNCHANGED <<session, apply_loading, apply_toast, checkAuth_pc, onSubmit_pc,
                   request, insertResult>>

onSubmit_NotLoading ==
    /\ route = "/apply"
    /\ ~apply_loading
    /\ IF ~HoldsIdentity(user)
       THEN /\ apply_toast' = AuthenticationRequired
            /\ route' = "/login"
            /\ UNCHANGED <<apply_loading, onSubmit_pc, request>>
       ELSE /\ apply_loading' = FALSE
            /\ request' = [kind |-> "insert", auth |-> session, row |-> SubmittedRow(user)]
            /\ onSubmit_pc' = "awaiting"
            /\ UNCHANGED <<apply_toast, route>>
    /\ UNCHANGED <<session, notifications, user, checkAuth_pc, insertResult, sessionLost>>

\* onSubmit up to the await: the form is submitted with valid fields
\* (the submit button is disabled while loading)
onSubmit ==
    /\ route = "/apply"
    /\ ~apply_loading
    /\ IF ~HoldsIdentity(user)
       THEN /\ apply_toast' = AuthenticationRequired
            /\ route' = "/login"
            /\ UNCHANGED <<apply_loading, onSubmit_pc, request>>
       ELSE /\ apply_loading' = TRUE
            /\ request' = [kind |-> "insert", auth |-> session, row |-> SubmittedRow(user)]
            /\ onSubmit_pc' = "awaiting"
            /\ UNCHANGED <<apply_toast, route>>
    /\ UNCHANGED <<session, notifications, user, checkAuth_pc, insertResult, sessionLost>>

\* the store answers the insert, or the request fails
ApplyAnswered ==
    /\ onSubmit_pc = "awaiting"
    /\ onSubmit_pc' = "resolved"
    /\ \/ /\ AcceptsApplication(request.auth, request.row)
          /\ Cardinality(license_applications) < MaxApplications
          /\ InsertApplication(request.auth, request.row)
          /\ insertResult' = [kind |-> "ok"]
       \/ /\ ~AcceptsApplication(request.auth, request.row)
          /\ insertResult' = [kind |-> "error",
                              message |-> "new row violates row-level security policy"]
          /\ UNCHANGED license_applications
       \/ /\ \E m \in StoreErrors : insertResult' = [kind |-> "error", message |-> m]
          /\ UNCHANGED license_applications
       \/ /\ insertResult' = [kind |-> "throw"]
          /\ UNCHANGED license_applications
    /\ UNCHANGED <<session, notifications, user, apply_loading, apply_toast, route,
                   checkAuth_pc, request, sessionLost>>

\* onSubmit after the await
onSubmitResume ==
    /\ onSubmit_pc = "resolved"
    /\ onSubmit_pc' = "idle"
    /\ apply_loading' = FALSE
    /\ request' = NoRequest
    /\ insertResult' = NoResponse
    /\ \/ /\ insertResult.kind = "throw"
          /\ apply_toast' = [title |-> "Error",
                             description |-> "An unexpected error occurred. Please try again."]
          /\ UNCHANGED route
       \/ /\ insertResult.kind = "error"
          /\ apply_toast' = [title |-> "Submission Failed",
                             description |-> SubmitErrorText(insertResult.message)]
          /\ UNCHANGED route
       \/ /\ insertResult.kind = "ok"
          /\ apply_toast' = [title |-> "Application Submitted",
                             description |->
                                 "Your license application has been submitted successfully!"]
          /\ route' = "/dashboard"
    /\ UNCHANGED <<session, notifications, user, checkAuth_pc, sessionLost>>

----------------------------------------------------------------------------
(* Initial states *)

\* handle_new_user gave every identity the 'user' role; root was made an admin
InitialRoles ==
    {[user_id |-> u, role |-> "user"] : u \in Users} \cup {[user_id |-> "root", role |-> "admin"]}

NoRead == [who |-> Anon, table |-> "none", rows |-> {}]

VerifyPageInit ==
    /\ licenseId = ""
    /\ verificationResult = JsNull
    /\ verify_loading = FALSE
    /\ verify_toast = JsNull
    /\ verify_pc = "idle"
    /\ queried = ""
    /\ response = NoResponse
    /\ data = JsNull
    /\ checkedAt = 0

ApplyPageInit ==
    /\ session \in {Null, "alice"}
    /\ notifications = <<>>
    /\ user = Null
    /\ apply_loading = FALSE
    /\ apply_toast = JsNull
    /\ route = "/apply"
    /\ checkAuth_pc = "awaiting"
    /\ onSubmit_pc = "idle"
    /\ request = NoRequest
    /\ insertResult = NoResponse
    /\ sessionLost = FALSE

----------------------------------------------------------------------------
(* SpecVerify: an admin issues one license for each approved application and *)
(* changes its status, while the Verify page runs                             *)

\* alice's application was submitted and approved before the page is opened
ApprovedApplication == [id |-> 1, user_id |-> "alice", status |-> "approved"]

IssuedInputs ==
    {[application_id |-> 1, user_id |-> "alice", license_number |-> n,
      license_type |-> "business", business_name |-> "Acme", issue_date |-> 0,
      expiry_date |-> e,
      blockchain_hash |-> IF n = "LIC-2024-00001" THEN "0xabc" ELSE Null]
     : n \in LicenseNumbers, e \in Timestamps}

VerifyInit ==
    /\ auth_users = Users
    /\ user_roles = InitialRoles
    /\ license_applications = {ApprovedApplication}
    /\ licenses = {}
    /\ lastRead = NoRead
    /\ clock = 0
    /\ VerifyPageInit
    /\ ApplyPageInit
    /\ session = Null

IssueLicense ==
    /\ \E input \in IssuedInputs :
          /\ \A l \in licenses : l.application_id # input.application_id
          /\ InsertLicense("root", input)
    /\ UNCHANGED <<auth_users, user_roles, license_applications, lastRead, clock, verifyVars, applyVars>>

ChangeLicenseStatus ==
    /\ \E id \in Ids(licenses), s \in LicenseStatuses : UpdateLicense("root", id, "status", s)
    /\ UNCHANGED <<auth_users, user_roles, license_applications, lastRead, clock, verifyVars, applyVars>>

TypeLicenseId ==
    /\ \E value \in QueryStrings : setLicenseId(value)
    /\ UNCHANGED <<storeVars, lastRead, clock, applyVars>>

SubmitVerify ==
    /\ handleVerify
    /\ UNCHANGED <<storeVars, lastRead, clock, applyVars>>

AnswerVerify ==
    /\ VerifyAnswered
    /\ UNCHANGED <<storeVars, lastRead, clock, applyVars>>

ResumeVerify ==
    /\ handleVerifyResume
    /\ UNCHANGED <<storeVars, lastRead, clock, applyVars>>

TimePasses ==
    /\ Tick
    /\ UNCHANGED <<storeVars, lastRead, verifyVars, applyVars>>

VerifyNext ==
    \/ IssueLicense
    \/ ChangeLicenseStatus
    \/ TypeLicenseId
    \/ SubmitVerify
    \/ AnswerVerify
    \/ ResumeVerify
    \/ TimePasses

SpecVerify == VerifyInit /\ [][VerifyNext]_vars

----------------------------------------------------------------------------
(* SpecLicenses: any principal sends inserts, updates and selects to licenses *)

\* two applications were submitted and approved before
ApprovedApplications ==
    {[id |-> 1, user_id |-> "alice", status |-> "approved"],
     [id |-> 2, user_id |-> "bob", status |-> "approved"]}

LicenseInputs ==
    {[application_id |-> a, user_id |-> u, license_number |-> n,
      license_type |-> "business", business_name |-> "Acme", issue_date |-> 0,
      expiry_date |-> MaxNow * SubMs, blockchain_hash |-> Null]
     : a \in 1 .. 3, u \in {"alice"}, n \in LicenseNumbers}

LicenseUpdates ==
    ({"application_id"} \X (1 .. 3))
      \cup ({"license_number"} \X LicenseNumbers)
      \cup ({"status"} \X {"active", "revoked", "valid"})

ColumnChoices(table) ==
    IF table = "licenses"
    THEN {VerifyColumns, LicenseColumns, {"id", "user_id", "application_id"}}
    ELSE {ApplicationColumns}

LicensesInit ==
    /\ auth_users = Users
    /\ user_roles = InitialRoles
    /\ license_applications = ApprovedApplications
    /\ licenses = {}
    /\ lastRead = NoRead
    /\ clock = 0
    /\ VerifyPageInit
    /\ ApplyPageInit
    /\ session = Null

RequestInsertLicense ==
    /\ Cardinality(licenses) < MaxLicenses
    /\ \E uid \in Principals, input \in LicenseInputs : InsertLicense(uid, input)
    /\ UNCHANGED <<auth_users, user_roles, license_applications, lastRead, clock, verifyVars, applyVars>>

RequestUpdateLicense ==
    /\ \E uid \in Principals, id \in Ids(licenses), u \in LicenseUpdates :
          UpdateLicense(uid, id, u[1], u[2])
    /\ UNCHANGED <<auth_users, user_roles, license_applications, lastRead, clock, verifyVars, applyVars>>

RequestSelect ==
    /\ \E uid \in Principals, table \in {"licenses", "license_applications"} :
          \E cols \in ColumnChoices(table) : Select(uid, table, cols)
    /\ UNCHANGED <<storeVars, clock, verifyVars, applyVars>>

LicensesNext ==
    \/ RequestInsertLicense
    \/ RequestUpdateLicense
    \/ RequestSelect

SpecLicenses == LicensesInit /\ [][LicensesNext]_vars

----------------------------------------------------------------------------
(* SpecStore: any principal sends inserts, updates and selects to             *)
(* license_applications                                                       *)

ApplicationInputs ==
    {[user_id |-> u] : u \in Users}
      \cup {[user_id |-> u, status |-> s] : u \in Users,
                                            s \in ApplicationStatuses \cup {"granted"}}

StoreInit ==
    /\ auth_users = Users
    /\ user_roles = InitialRoles
    /\ license_applications = {}
    /\ licenses = {}
    /\ lastRead = NoRead
    /\ clock = 0
    /\ VerifyPageInit
    /\ ApplyPageInit
    /\ session = Null

RequestInsertApplication ==
    /\ Cardinality(license_applications) < MaxApplications
    /\ \E uid \in Principals, input \in ApplicationInputs : InsertApplication(uid, input)
    /\ UNCHANGED <<auth_users, user_roles, licenses, lastRead, clock, verifyVars, applyVars>>

RequestUpdateApplication ==
    /\ \E uid \in Principals, id \in Ids(license_applications),
          s \in ApplicationStatuses \cup {"granted"} : UpdateApplication(uid, id, s)
    /\ UNCHANGED <<auth_users, user_roles, licenses, lastRead, clock, verifyVars, applyVars>>

RequestSelectApplications ==
    /\ \E uid \in Principals : Select(uid, "license_applications", ApplicationColumns)
    /\ UNCHANGED <<storeVars, clock, verifyVars, applyVars>>

StoreNext ==
    \/ RequestInsertApplication
    \/ RequestUpdateApplication
    \/ RequestSelectApplications

SpecStore == StoreInit /\ [][StoreNext]_vars

----------------------------------------------------------------------------
(* SpecApply: the Apply page is open while sessions start and end *)

ApplyInit ==
    /\ auth_users = Users
    /\ user_roles = InitialRoles
    /\ license_applications = {}
    /\ licenses = {}
    /\ lastRead = NoRead
    /\ clock = 0
    /\ VerifyPageInit
    /\ ApplyPageInit

SessionEnds ==
    /\ SignOut
    /\ UNCHANGED <<storeVars, lastRead, clock, verifyVars>>

SessionStarts ==
    /\ \E u \in {"alice", "bob"} : SignIn(u)
    /\ UNCHANGED <<storeVars, lastRead, clock, verifyVars>>

ResumeCheckAuth ==
    /\ checkAuth
    /\ UNCHANGED <<storeVars, lastRead, clock, verifyVars>>

NotifySessionChange ==
    /\ onAuthStateChange
    /\ UNCHANGED <<storeVars, lastRead, clock, verifyVars>>

SubmitApplication ==
    /\ onSubmit
    /\ UNCHANGED <<storeVars, lastRead, clock, verifyVars>>

AnswerApplication ==
    /\ ApplyAnswered
    /\ UNCHANGED <<auth_users, user_roles, licenses, lastRead, clock, verifyVars>>

ResumeSubmit ==
    /\ onSubmitResume
    /\ UNCHANGED <<storeVars, lastRead, clock, verifyVars>>

ApplyNext ==
    \/ SessionEnds
    \/ SessionStarts
    \/ ResumeCheckAuth
    \/ NotifySessionChange
    \/ SubmitApplication
    \/ AnswerApplication
    \/ ResumeSubmit

SpecApply == ApplyInit /\ [][ApplyNext]_vars

----------------------------------------------------------------------------
(* SpecRoles: identities sign up and any principal sends inserts, updates and *)
(* deletes to user_roles                                                      *)

RolePrincipals == Principals \cup NewUsers

RoleRows == [user_id : Users \cup NewUsers, role : app_role \cup {"owner"}]

RolesInit ==
    /\ auth_users = Users
    /\ user_roles = InitialRoles
    /\ license_applications = {}
    /\ licenses = {}
    /\ lastRead = NoRead
    /\ clock = 0
    /\ VerifyPageInit
    /\ ApplyPageInit
    /\ session = Null

NewUserCreated ==
    /\ \E id \in NewUsers : handle_new_user(id)
    /\ UNCHANGED <<license_applications, licenses, lastRead, clock, verifyVars, applyVars>>

RequestInsertRole ==
    /\ \E uid \in RolePrincipals, row \in RoleRows : InsertRole(uid, row)
    /\ UNCHANGED <<license_applications, licenses, lastRead, clock, verifyVars, applyVars>>

RequestUpdateRole ==
    /\ \E uid \in RolePrincipals, old \in user_roles, role \in app_role \cup {"owner"} :
          UpdateRole(uid, old, role)
    /\ UNCHANGED <<license_applications, licenses, lastRead, clock, verifyVars, applyVars>>

RequestDeleteRole ==
    /\ \E uid \in RolePrincipals, row \in user_roles : DeleteRole(uid, row)
    /\ UNCHANGED <<license_applications, licenses, lastRead, clock, verifyVars, applyVars>>

RolesNext ==
    \/ NewUserCreated
    \/ RequestInsertRole
    \/ RequestUpdateRole
    \/ RequestDeleteRole

SpecRoles == RolesInit /\ [][RolesNext]_vars

----------------------------------------------------------------------------
(* SpecPages: the Verify page and the Apply page run side by side against a  *)
(* store that holds one approved application and its license                 *)

\* the license an admin issued for alice's approved application
IssuedLicense ==
    [id |-> 1, application_id |-> 1, user_id |-> "alice",
     license_number |-> "LIC-2024-00001", license_type |-> "business",
     business_name |-> "Acme", issue_date |-> 0, expiry_date |-> 1,
     status |-> "active", blockchain_hash |-> "0xabc"]

PagesInit ==
    /\ auth_users = Users
    /\ user_roles = InitialRoles
    /\ license_applications = {ApprovedApplication}
    /\ licenses = {IssuedLicense}
    /\ lastRead = NoRead
    /\ clock = 0
    /\ VerifyPageInit
    /\ ApplyPageInit
    /\ session = "alice"

PagesNext ==
    \/ TypeLicenseId
    \/ SubmitVerify
    \/ AnswerVerify
    \/ ResumeVerify
    \/ ResumeCheckAuth
    \/ SubmitApplication
    \/ AnswerApplication
    \/ ResumeSubmit

SpecPages == PagesInit /\ [][PagesNext]_vars

----------------------------------------------------------------------------
(* Properties of the Verify page, under SpecVerify *)

\* handleVerify has shown the result of a select that matched a row
Matched == ~IsNull(data) /\ ~IsNull(verificationResult)

\* the time of the verification, in the units of the stored timestamps
CheckedAtStored == checkedAt * SubMs

\* C1 as stated: the result is valid exactly when the stored status is 'active' and
\* now is strictly before expiry_date (a license expiring exactly now is not valid).
C1_ValidIffActiveAndBeforeExpiry ==
    Matched =>
        (verificationResult.isValid <=>
            (data.status = "active" /\ CheckedAtStored < data.expiry_date))

\* C1 as amended: the result is valid exactly when the stored status is 'active' and
\* expiry_date is not before now (a license expiring exactly now is still valid).
C1_ValidIffActiveAndNotPastExpiry ==
    Matched =>
        (verificationResult.isValid <=>
            (data.status = "active" /\ CheckedAtStored <= data.expiry_date))

C1_Witness_ExpiringNow ==
    /\ Matched
    /\ data.status = "active"
    /\ data.expiry_date = CheckedAtStored
    /\ checkedAt > 0
    /\ verificationResult.isValid

\* C6: an active license whose expiry_date is in the past is reported with
\* isValid = false and status "Expired".
C6_ActivePastExpiryIsExpired ==
    (Matched /\ data.status = "active" /\ data.expiry_date < CheckedAtStored) =>
        (~verificationResult.isValid /\ verificationResult.status = "Expired")

C6_Witness_ActivePastExpiry ==
    /\ Matched
    /\ data.status = "active"
    /\ data.expiry_date < CheckedAtStored
    /\ verificationResult.status = "Expired"

\* C7: for an active license past its expiry the page shows the Expired status and
\* not the 'Invalid License' outcome of a number that matches nothing.
C7_ExpiredShownAsExpired ==
    (Matched /\ data.status = "active" /\ data.expiry_date < CheckedAtStored) =>
        /\ Render(verificationResult).heading # "Invalid License"
        /\ Render(verificationResult).badge = "Expired"

\* C8: a suspended or revoked license is never valid, whatever its expiry_date and
\* the time of the verification.
C8_SuspendedOrRevokedNeverValid ==
    (Matched /\ data.status \in {"suspended", "revoked"}) => ~verificationResult.isValid

C8_Witness_SuspendedBeforeExpiry ==
    /\ Matched
    /\ data.status \in {"suspended", "revoked"}
    /\ CheckedAtStored < data.expiry_date
    /\ ~verificationResult.isValid

\* C9: when the queried number matches no stored row the select resolves to no data,
\* and the result is then exactly {isValid: false, licenseNumber: <queried string>}.
C9_NoMatchEchoesOnlyTheQuery ==
    [][/\ (/\ verify_pc = "awaiting"
           /\ verify_pc' = "resolved"
           /\ response'.kind = "data"
           /\ \A l \in licenses : l.license_number # queried) => IsNull(response'.data)
       /\ (/\ verify_pc = "resolved"
           /\ verify_pc' = "idle"
           /\ response.kind = "data"
           /\ IsNull(response.data)) =>
               verificationResult' = [isValid |-> FALSE, licenseNumber |-> queried]
      ]_vars

C9_Witness_NoMatchWhileALicenseExists ==
    /\ verify_pc = "idle"
    /\ IsNull(data)
    /\ licenses # {}
    /\ queried = "LIC-2024-12345"
    /\ licenseId # queried
    /\ verificationResult = [isValid |-> FALSE, licenseNumber |-> "LIC-2024-12345"]

----------------------------------------------------------------------------
(* Properties of the store, under SpecLicenses and SpecStore *)

PrivateLicenseColumns == {"id", "user_id", "application_id"}

\* C2: no select the store answers for an unauthenticated caller returns a
\* license_applications row, or the id, user_id or application_id of a license.
C2_AnonymousReadsNothingPrivate ==
    lastRead.who = Anon =>
        \A row \in lastRead.rows :
            /\ lastRead.table # "license_applications"
            /\ DOMAIN row \cap PrivateLicenseColumns = {}

\* C3: a row a non-admin principal inserts into license_applications is stored
\* with status 'pending', whatever status the insert names (the insert policy
\* makes the inserting principal the owner of the new row).
C3_InsertedApplicationsArePending ==
    [][\A row \in license_applications' :
          (row.id \notin Ids(license_applications) /\ ~has_role(row.user_id, "admin"))
              => row.status = "pending"]_vars

\* C10: every license references one stored application, and no two licenses
\* reference the same application.
C10_OneLicensePerApplication ==
    /\ \A l \in licenses : l.application_id \in Ids(license_applications)
    /\ \A l1, l2 \in licenses : l1.application_id = l2.application_id => l1.id = l2.id

----------------------------------------------------------------------------
(* Properties of the Apply page, under SpecApply *)

\* C4: once the onAuthStateChange callback has run with no session, no insert of
\* the page reaches the store (a request in flight is not carried out) and no
\* further insert request is issued.
C4_NoInsertAfterSessionLoss ==
    [][sessionLost =>
          /\ license_applications' = license_applications
          /\ (onSubmit_pc' = "awaiting" => onSubmit_pc = "awaiting")]_vars

\* C5: onSubmit invoked while the page holds no identity issues no insert request;
\* it shows 'Authentication Required', navigates to /login and leaves loading false.
C5_SubmitWithoutIdentityIsRejected ==
    [][(onSubmit /\ user = Null) =>
          /\ request' = NoRequest
          /\ onSubmit_pc' = "idle"
          /\ license_applications' = license_applications
          /\ apply_toast' = AuthenticationRequired
          /\ route' = "/login"
          /\ apply_loading' = FALSE]_vars

\* submitted before getSession has resolved, although a session exists
C5_Witness_RejectedBeforeCheckAuth ==
    /\ user = Null
    /\ session = "alice"
    /\ checkAuth_pc = "awaiting"
    /\ apply_toast = AuthenticationRequired
    /\ route = "/login"
    /\ request = NoRequest
    /\ ~apply_loading

----------------------------------------------------------------------------
(* Further properties of the store *)

\* C11: an insert into license_applications is accepted only from an authenticated
\* principal and only for a row whose user_id is that principal: an anonymous
\* caller inserts nothing, and nobody (an admin included) inserts for another.
C11_InsertOnlyForOneself ==
    [][\A uid \in Principals, input \in ApplicationInputs :
          InsertApplication(uid, input) => (uid # Anon /\ input.user_id = uid)]_vars

\* the admin and a user each hold an application of their own
C11_Witness_AdminAndUserOwnRows ==
    /\ \E r \in license_applications : r.user_id = "root"
    /\ \E r \in license_applications : r.user_id = "alice"

\* C12: a select on license_applications returns to a principal exactly the rows
\* it owns, or every row when it holds the admin role; an anonymous caller and a
\* user who owns nothing get no row.
C12_ReadOwnOrAdmin ==
    [][\A uid \in Principals :
          Select(uid, "license_applications", ApplicationColumns) =>
              lastRead'.rows =
                  {r \in license_applications :
                      \/ r.user_id = uid
                      \/ [user_id |-> uid, role |-> "admin"] \in user_roles}]_vars

\* alice has read her own row while bob's row, which she did not get, is stored
C12_Witness_OwnRowsOnly ==
    /\ lastRead.who = "alice"
    /\ lastRead.table = "license_applications"
    /\ \E r \in lastRead.rows : r \in license_applications /\ r.user_id = "alice"
    /\ \E r \in license_applications : r.user_id = "bob" /\ r \notin lastRead.rows

\* C14: no two licenses share a license_number, so the lookup of handleVerify
\* matches at most one row for any queried string.
C14_LicenseNumbersAreUnique ==
    /\ \A l1, l2 \in licenses : l1.license_number = l2.license_number => l1 = l2
    /\ \A q \in QueryStrings :
          /\ Cardinality({l \in licenses : l.license_number = q}) <= 1
          /\ MaybeSingle(Anon, q).kind = "data"

C14_Witness_TwoLicenses ==
    /\ Cardinality(licenses) = 2
    /\ \E l \in licenses : MaybeSingle(Anon, l.license_number).data.license_number
                               = l.license_number

----------------------------------------------------------------------------
(* Properties of user_roles, under SpecRoles *)

AdminRows(roles) == {r \in roles : r.role = "admin"}

\* a request of the principal uid that writes user_roles
RoleRequestBy(uid) ==
    \/ \E row \in RoleRows : InsertRole(uid, row)
    \/ \E old \in user_roles, role \in app_role : UpdateRole(uid, old, role)
    \/ \E row \in user_roles : DeleteRole(uid, row)

\* C15: a write to user_roles is carried out only for a principal that holds the
\* admin role, a row with role 'admin' appears only in such a write, and a newly
\* created identity receives the 'user' role and nothing else.
C15_NoPrivilegeEscalation ==
    [][/\ \A uid \in RolePrincipals :
             RoleRequestBy(uid) => [user_id |-> uid, role |-> "admin"] \in user_roles
       /\ ~(AdminRows(user_roles') \subseteq AdminRows(user_roles)) =>
             \E uid \in RolePrincipals :
                 /\ [user_id |-> uid, role |-> "admin"] \in user_roles
                 /\ RoleRequestBy(uid)
       /\ \A id \in NewUsers :
             handle_new_user(id) =>
                 {r \in user_roles' : r.user_id = id} = {[user_id |-> id, role |-> "user"]}
      ]_vars

\* carol has signed up and holds only the 'user' role, while the admin has made
\* alice an admin
C15_Witness_NewUserAndGrantedAdmin ==
    /\ "carol" \in auth_users
    /\ {r \in user_roles : r.user_id = "carol"} = {[user_id |-> "carol", role |-> "user"]}
    /\ [user_id |-> "alice", role |-> "admin"] \in user_roles

----------------------------------------------------------------------------
(* C13, under SpecPages *)

\* the step in which handleVerify resumes after the store answered with an error
VerifyErrorShown == verify_pc = "resolved" /\ verify_pc' = "idle" /\ response.kind = "error"

\* the step in which onSubmit resumes after the store answered with an error
SubmitErrorShown ==
    onSubmit_pc = "resolved" /\ onSubmit_pc' = "idle" /\ insertResult.kind = "error"

\* C13 as stated: on both pages the notification shown for a store error
\* carries the store's own error message
C13_StoreMessagePassedThrough ==
    [][ /\ VerifyErrorShown => verify_toast'.description = response.message
        /\ SubmitErrorShown => apply_toast'.description = insertResult.message ]_vars

\* C13: a failed insert in onSubmit shows "Submission Failed" with the store's
\* message, or a fixed text when that message is empty; a failed select in
\* handleVerify shows "Error" with a fixed text, whatever the store's message
C13_StoreErrorIsNotified ==
    [][ /\ VerifyErrorShown =>
              verify_toast' = [title |-> "Error",
                               description |-> "Failed to verify license. Please try again."]
        /\ SubmitErrorShown =>
              /\ apply_toast'.title = "Submission Failed"
              /\ apply_toast'.description =
                     IF insertResult.message = ""
                     THEN "Failed to submit application. Please try again."
                     ELSE insertResult.message ]_vars

C13_Witness_BothPagesShowAStoreError ==
    /\ verify_pc = "idle"
    /\ ~IsNull(verify_toast)
    /\ verify_toast.description = "Failed to verify license. Please try again."
    /\ onSubmit_pc = "idle"
    /\ apply_toast = [title |-> "Submission Failed", description |-> "connection refused"]

----------------------------------------------------------------------------
(* C16, under SpecPages *)

\* C16: a page starts a request only when none of its requests is in flight,
\* loading is true from the start of a request until it has resolved, and is
\* false again after every outcome
C16_OneRequestInFlight ==
    [][ /\ handleVerify => verify_pc = "idle"
        /\ (onSubmit /\ onSubmit_pc' = "awaiting") => onSubmit_pc = "idle"
        /\ verify_pc' # "idle" => verify_loading'
        /\ onSubmit_pc' # "idle" => apply_loading'
        /\ (verify_loading /\ ~verify_loading') => verify_pc = "resolved"
        /\ (apply_loading /\ ~apply_loading') => onSubmit_pc = "resolved"
        /\ (verify_pc = "resolved" /\ verify_pc' = "idle") => ~verify_loading'
        /\ (onSubmit_pc = "resolved" /\ onSubmit_pc' = "idle") => ~apply_loading' ]_vars

C16_Witness_BothRequestsInFlight ==
    /\ verify_pc = "awaiting"
    /\ verify_loading
    /\ onSubmit_pc = "awaiting"
    /\ apply_loading
    /\ request.kind = "insert"

----------------------------------------------------------------------------
(* C17, under SpecVerify *)

\* C17: handleVerify clears the result before it queries, the result is null
\* while the query runs and after it ended in an error or an exception, and a
\* result that is shown carries the license number of the latest request
C17_ResultBelongsToLatestRequest ==
    [][ /\ handleVerify => IsNull(verificationResult')
        /\ verify_pc' # "idle" => IsNull(verificationResult')
        /\ (verify_pc = "resolved" /\ verify_pc' = "idle"
              /\ response.kind \in {"error", "throw"}) => IsNull(verificationResult')
        /\ ~IsNull(verificationResult') =>
              /\ verify_pc' = "idle"
              /\ verificationResult'.licenseNumber = queried' ]_vars

\* the verification of a stored license failed
C17_Witness_NoResultAfterFailure ==
    /\ verify_pc = "idle"
    /\ ~verify_loading
    /\ \E l \in licenses : l.license_number = queried
    /\ ~IsNull(verify_toast)
    /\ IsNull(verificationResult)

====
